---- MODULE Spec2Model ----
(***************************************************************************)
(* Workflow engine of guvensoft/ai-agent: plan store, implementer          *)
(* validation, sandbox executor, patch applier and the verify loop.        *)
(*                                                                         *)
(* A path is a sequence of one-character strings, so that the string       *)
(* operations of the code (str.replace, prefix tests) are computed and not *)
(* assumed.  A patch text is described by the attributes the code looks    *)
(* at: whether it is blank, whether it holds the 'diff --git' marker,      *)
(* whether unidiff parses it, and its file blocks.  A file block carries   *)
(* the content git apply needs to find (pre) and the content it leaves     *)
(* (post).                                                                 *)
(***************************************************************************)
EXTENDS Integers, Sequences, FiniteSets, TLC

VARIABLES store, isGit, head, branches, wt, rej, log, tmpd, last

vars == <<store, isGit, head, branches, wt, rej, log, tmpd, last>>

\* ------------------------------------------------------------------------
\* Bounds of the exploration
\* ------------------------------------------------------------------------
MaxAttempts == 2
MaxRounds == 2

\* ------------------------------------------------------------------------
\* Small helpers
\* ------------------------------------------------------------------------
Range(s) == {s[i] : i \in 1..Len(s)}

None == <<>>
Some(x) == <<x>>

\* ------------------------------------------------------------------------
\* Paths and patches
\* ------------------------------------------------------------------------
PX == <<"x">>
PLibX == <<"l", "i", "b", "/", "x">>
PLix == <<"l", "i", "x">>
PNew == <<"n">>

\* the scratch file of the applier, <wd>/.agent_patch.tmp
PTmp == <<".agent_patch.tmp">>

TreeFiles == {PX, PLibX, PLix, PNew, PTmp}

\* the committed tree of the repository (HEAD commit)
BaseTree == [f \in TreeFiles |-> IF f = PX THEN "c0" ELSE "absent"]

DevNull == <<"/", "d", "e", "v", "/", "n", "u", "l", "l">>

\* the path of a block's '+++' line, unidiff's target_file: 'b/<path>', and
\* '/dev/null' for a block that deletes its file
TargetFile(blk) == IF blk.deleted THEN DevNull ELSE <<"b", "/">> \o blk.path

BlkModX == [path |-> PX, added |-> FALSE, deleted |-> FALSE, pre |-> "c0", post |-> "c1"]
BlkBadX == [path |-> PX, added |-> FALSE, deleted |-> FALSE, pre |-> "zz", post |-> "c1"]
BlkNew == [path |-> PNew, added |-> TRUE, deleted |-> FALSE, pre |-> "absent", post |-> "n1"]
BlkTouch == [path |-> PNew, added |-> FALSE, deleted |-> FALSE, pre |-> "empty", post |-> "n1"]
BlkLibX == [path |-> PLibX, added |-> FALSE, deleted |-> FALSE, pre |-> "empty", post |-> "c1"]
BlkDelX == [path |-> PX, added |-> FALSE, deleted |-> TRUE, pre |-> "c0", post |-> "absent"]

Text(blank, marker, parses, malformed, blocks) ==
    [blank |-> blank, marker |-> marker, parses |-> parses,
     malformed |-> malformed, blocks |-> blocks]

GenBlank == Text(TRUE, FALSE, TRUE, FALSE, <<>>)
GenProse == Text(FALSE, FALSE, TRUE, FALSE, <<>>)
GenUnparseable == Text(FALSE, TRUE, FALSE, FALSE, <<>>)
GenNoFiles == Text(FALSE, TRUE, TRUE, FALSE, <<>>)
Diff(blocks) == Text(FALSE, TRUE, TRUE, FALSE, blocks)

\* what the text-generation backend may answer (llm_utils.chat_once)
GenOutputs ==
    {GenBlank, GenProse, GenUnparseable, GenNoFiles,
     Diff(<<BlkModX>>), Diff(<<BlkLibX>>), Diff(<<BlkNew>>),
     Diff(<<BlkTouch>>), Diff(<<BlkNew, BlkBadX>>)}

\* the declared file lists a planner answer may hold (plan.files[].path)
DeclaredLists == {<<>>, <<PX>>, <<PLix>>, <<PLibX>>, <<PX, PNew>>}

PlanIds == {"p1"}
UnknownId == "p0"
Requests == {"r1"}
Feedbacks == {None, Some("user")}

\* ------------------------------------------------------------------------
\* Implementer validation (implementer.py)
\* ------------------------------------------------------------------------
RECURSIVE Replace(_, _)
\* str.replace(c + "/", ""): every occurrence is removed, left to right
Replace(s, c) ==
    IF Len(s) < 2 THEN s
    ELSE IF s[1] = c /\ s[2] = "/" THEN Replace(SubSeq(s, 3, Len(s)), c)
    ELSE <<s[1]>> \o Replace(Tail(s), c)

\* (pf.target_file or ...).replace("b/", "").replace("a/", "")
NormTarget(t) == Replace(Replace(t, "b"), "a")

Touched(text) == [i \in 1..Len(text.blocks) |-> NormTarget(TargetFile(text.blocks[i]))]

Rejected(why) == [ok |-> FALSE, error |-> why, files |-> {}]

\* a validation that skips the unidiff parse
ValidatePatch_NoParse(text, allowed) ==
    IF text.blank THEN Rejected("empty")
    ELSE IF ~text.marker THEN Rejected("no diff --git")
    ELSE IF \E i \in 1..Len(text.blocks) :
                allowed # <<>> /\ Touched(text)[i] \notin Range(allowed)
         THEN Rejected("outside")
    ELSE [ok |-> TRUE, error |-> "", files |-> Range(Touched(text))]

ValidatePatch(text, allowed) ==
    IF text.blank THEN Rejected("empty")
    ELSE IF ~text.marker THEN Rejected("no diff --git")
    ELSE IF ~text.parses THEN Rejected("unparseable")
    ELSE IF \E i \in 1..Len(text.blocks) :
                allowed # <<>> /\ Touched(text)[i] \notin Range(allowed)
         THEN Rejected("outside")
    ELSE IF Len(text.blocks) = 0 THEN Rejected("no files")
    ELSE [ok |-> TRUE, error |-> "", files |-> Range(Touched(text))]

\* Implementer.generate_patch: one generator call, then validation
GeneratePatch(rec, raw, feedback) ==
    LET v == ValidatePatch(raw, rec.files)
    IN  IF v.ok
        THEN [ok |-> TRUE,
              attempt |-> [kind |-> "attempt", files |-> v.files, patch |-> raw,
                           feedback |-> feedback]]
        ELSE [ok |-> FALSE,
              attempt |-> [kind |-> "error", error |-> v.error, feedback |-> feedback]]

\* ------------------------------------------------------------------------
\* Plan store and the planning / implementation stages (dev_workflow.py)
\* ------------------------------------------------------------------------
Exists(p) == p \in DOMAIN store

LoadPlan(p) == store[p]

SavePlanIn(st, p, rec) == [q \in DOMAIN st \cup {p} |-> IF q = p THEN rec ELSE st[q]]

SavePlan(p, rec) == SavePlanIn(store, p, rec)

NewRecord(p, req, files) ==
    [plan_id |-> p, request |-> req, files |-> files,
     attempts |-> <<>>, final_patch |-> None, patch |-> None,
     ver_attempts |-> <<>>, ver_status |-> "pending"]

\* the record implement_plan writes, and whether it raises
\* implement_plan without line 123: the record's 'patch' field is left alone
ImplementOn_KeepsPatch(rec, raw, feedback) ==
    LET g == GeneratePatch(rec, raw, feedback)
    IN  IF g.ok
        THEN [raised |-> "",
              rec |-> [rec EXCEPT !.attempts = Append(@, g.attempt),
                                  !.final_patch = Some(g.attempt.patch)]]
        ELSE [raised |-> "PatchValidationError",
              rec |-> [rec EXCEPT !.attempts = Append(@, g.attempt)]]

\* implement_plan that stores the new entry in place of the list
ImplementOn_Overwrites(rec, raw, feedback) ==
    LET g == GeneratePatch(rec, raw, feedback)
    IN  IF g.ok
        THEN [raised |-> "",
              rec |-> [rec EXCEPT !.attempts = <<g.attempt>>,
                                  !.final_patch = Some(g.attempt.patch),
                                  !.patch = Some(g.attempt.patch)]]
        ELSE [raised |-> "PatchValidationError",
              rec |-> [rec EXCEPT !.attempts = <<g.attempt>>]]

ImplementOn(rec, raw, feedback) ==
    LET g == GeneratePatch(rec, raw, feedback)
    IN  IF g.ok
        THEN [raised |-> "",
              rec |-> [rec EXCEPT !.attempts = Append(@, g.attempt),
                                  !.final_patch = Some(g.attempt.patch),
                                  !.patch = Some(g.attempt.patch)]]
        ELSE [raised |-> "PatchValidationError",
              rec |-> [rec EXCEPT !.attempts = Append(@, g.attempt)]]

MakePlan(req, files, plannerOk) ==
    /\ \E p \in PlanIds : ~Exists(p)
    /\ LET p == CHOOSE q \in PlanIds : ~Exists(q)
       IN  IF plannerOk
           THEN /\ store' = SavePlan(p, NewRecord(p, req, files))
                /\ last' = [op |-> "make_plan", pid |-> p, raised |-> ""]
           ELSE /\ store' = store
                /\ last' = [op |-> "make_plan", pid |-> p, raised |-> "ValueError"]
    /\ UNCHANGED <<isGit, head, branches, wt, rej, log, tmpd>>

ImplementPlan(p, raw, feedback) ==
    /\ Exists(p)
    /\ Len(store[p].attempts) < MaxAttempts
    /\ LET r == ImplementOn(LoadPlan(p), raw, feedback)
       IN  /\ store' = SavePlan(p, r.rec)
           /\ last' = [op |-> "implement", pid |-> p, raised |-> r.raised,
                       genCalls |-> 1, raw |-> Some(raw)]
    /\ UNCHANGED <<isGit, head, branches, wt, rej, log, tmpd>>

\* _load_plan raises before the generator is called
ImplementMissing(p) ==
    /\ ~Exists(p)
    /\ last' = [op |-> "implement", pid |-> p, raised |-> "FileNotFoundError",
                genCalls |-> 0, raw |-> None]
    /\ UNCHANGED <<store, isGit, head, branches, wt, rej, log, tmpd>>

\* ------------------------------------------------------------------------
\* Patch applier (dev_workflow.apply_patch_text) over a tree t with reject
\* fragments rj.  git apply is all-or-nothing; git apply --reject applies
\* the blocks that fit and leaves <file>.rej for a block whose file exists
\* but whose context does not fit.
\* ------------------------------------------------------------------------
Fits(blk, t) ==
    IF blk.path \notin TreeFiles THEN FALSE
    ELSE IF blk.added THEN t[blk.path] = "absent"
    ELSE t[blk.path] # "absent" /\ t[blk.path] = blk.pre

Written(blocks, sel, t) ==
    [f \in TreeFiles |->
        IF \E i \in sel : blocks[i].path = f
        THEN blocks[CHOOSE i \in sel : blocks[i].path = f].post
        ELSE t[f]]

\* git stops before it touches anything: no patch in the input, a corrupt
\* hunk or a path it refuses ('/dev/null')
Fatal(text) ==
    \/ text.malformed
    \/ Len(text.blocks) = 0
    \/ \E i \in 1..Len(text.blocks) : text.blocks[i].path \notin TreeFiles

\* git apply --whitespace=fix <tmp>
GitApply(text, t) ==
    IF Fatal(text) THEN [rc |-> 128, wt |-> t]
    ELSE IF \A i \in 1..Len(text.blocks) : Fits(text.blocks[i], t)
    THEN [rc |-> 0, wt |-> Written(text.blocks, 1..Len(text.blocks), t)]
    ELSE [rc |-> 1, wt |-> t]

\* lines 290-305: empty files for the missing targets that are not new files;
\* nothing when unidiff cannot parse the text (the exception is swallowed)
PreCreate(text, t) ==
    IF ~text.parses THEN t
    ELSE [f \in TreeFiles |->
            IF t[f] = "absent"
               /\ \E i \in 1..Len(text.blocks) :
                     text.blocks[i].path = f /\ ~text.blocks[i].added
            THEN "empty" ELSE t[f]]

\* lines 312-314: str(PatchSet(...)) rewrites the text
Reserialize(text) == [text EXCEPT !.malformed = FALSE]

\* git apply --reject --whitespace=fix <tmp>
GitApplyReject(text, t, rj) ==
    LET n == Len(text.blocks)
        good == {i \in 1..n : Fits(text.blocks[i], t)}
        torn == {text.blocks[i].path : i \in
                    {j \in 1..n : j \notin good /\ ~text.blocks[j].added
                                  /\ t[text.blocks[j].path] # "absent"}}
    IN  IF Fatal(text) THEN [rc |-> 128, wt |-> t, rej |-> rj]
        ELSE [rc |-> IF good = 1..n THEN 0 ELSE 1,
              wt |-> Written(text.blocks, good, t),
              rej |-> rj \cup torn]

\* the argument list of the git command of a strategy
Args(name) ==
    IF name = "reject"
    THEN <<"git", "apply", "--reject", "--whitespace=fix", ".agent_patch.tmp">>
    ELSE <<"git", "apply", "--whitespace=fix", ".agent_patch.tmp">>

\* lines 274-281, _run: the entry of a command that ran
Tried(name, rc) == [strategy |-> name, returncode |-> rc, args |-> Some(Args(name))]

\* line 319: the entry appended when re-serializing raised; it has no args
ParseFailed == [strategy |-> "reserialize", returncode |-> -1, args |-> None]

\* the third entry of the chain
Third(text, rc) == IF text.parses THEN Tried("reserialize", rc) ELSE ParseFailed

\* the return code subprocess.run reports for a git that was killed
KilledRc == -9

\* one 'git apply' of lines 285, 307 and 315, the i-th command of the chain
RunGit(i, killed, text, t) ==
    IF i \in killed THEN [rc |-> KilledRc, wt |-> t] ELSE GitApply(text, t)

\* a fallback that reports the exit code of the reject-mode command
Strategies_RejectOk(text, t, rj, killed) ==
    LET a1 == RunGit(1, killed, text, t)
        t2 == PreCreate(text, t)
        a2 == RunGit(2, killed, text, t2)
        a3 == IF text.parses THEN RunGit(3, killed, Reserialize(text), t2)
              ELSE [rc |-> -1, wt |-> t2]
        a4 == GitApplyReject(IF text.parses THEN Reserialize(text) ELSE text, t2, rj)
    IN  IF a1.rc = 0
        THEN [raised |-> FALSE, ok |-> TRUE, attempts |-> <<Tried("apply", 0)>>,
              wt |-> a1.wt, rej |-> rj]
        ELSE IF a2.rc = 0
        THEN [raised |-> FALSE, ok |-> TRUE,
              attempts |-> <<Tried("apply", a1.rc), Tried("precreate", 0)>>,
              wt |-> a2.wt, rej |-> rj]
        ELSE IF a3.rc = 0
        THEN [raised |-> FALSE, ok |-> TRUE,
              attempts |-> <<Tried("apply", a1.rc), Tried("precreate", a2.rc),
                             Tried("reserialize", 0)>>,
              wt |-> a3.wt, rej |-> rj]
        ELSE [raised |-> FALSE, ok |-> (a4.rc = 0),
              attempts |-> <<Tried("apply", a1.rc), Tried("precreate", a2.rc),
                             Third(text, a3.rc), Tried("reject", a4.rc)>>,
              wt |-> a4.wt, rej |-> a4.rej]

\* lines 285-329: the chain of strategies; killed holds the commands among
\* the first three that end without git having looked at the patch
Strategies(text, t, rj, killed) ==
    LET a1 == RunGit(1, killed, text, t)
        t2 == PreCreate(text, t)
        a2 == RunGit(2, killed, text, t2)
        a3 == IF text.parses THEN RunGit(3, killed, Reserialize(text), t2)
              ELSE [rc |-> -1, wt |-> t2]
        a4 == GitApplyReject(IF text.parses THEN Reserialize(text) ELSE text, t2, rj)
    IN  IF a1.rc = 0
        THEN [raised |-> FALSE, ok |-> TRUE, attempts |-> <<Tried("apply", 0)>>,
              wt |-> a1.wt, rej |-> rj]
        ELSE IF a2.rc = 0
        THEN [raised |-> FALSE, ok |-> TRUE,
              attempts |-> <<Tried("apply", a1.rc), Tried("precreate", 0)>>,
              wt |-> a2.wt, rej |-> rj]
        ELSE IF a3.rc = 0
        THEN [raised |-> FALSE, ok |-> TRUE,
              attempts |-> <<Tried("apply", a1.rc), Tried("precreate", a2.rc),
                             Tried("reserialize", 0)>>,
              wt |-> a3.wt, rej |-> rj]
        ELSE [raised |-> FALSE, ok |-> FALSE,
              attempts |-> <<Tried("apply", a1.rc), Tried("precreate", a2.rc),
                             Third(text, a3.rc), Tried("reject", a4.rc)>>,
              wt |-> a4.wt, rej |-> a4.rej]

\* lines 263-267 and 284: the patch text is written to the scratch file
WriteTmpPatch(t) == [t EXCEPT ![PTmp] = "patch"]

\* lines 330-334: finally: tmp.unlink()
Unlink(t) == [t EXCEPT ![PTmp] = "absent"]

\* an applier that removes the scratch file only before a return
ApplyPatchText_NoFinally(text, t, rj, exc, killed) ==
    IF exc
    THEN [raised |-> TRUE, ok |-> FALSE, attempts |-> <<>>,
          wt |-> WriteTmpPatch(t), rej |-> rj]
    ELSE [Strategies(text, WriteTmpPatch(t), rj, killed) EXCEPT !.wt = Unlink(@)]

\* apply_patch_text; exc: starting git raises after the scratch file was
\* written (or writing it raises half-way)
ApplyPatchText(text, t, rj, exc, killed) ==
    IF exc
    THEN [raised |-> TRUE, ok |-> FALSE, attempts |-> <<>>,
          wt |-> Unlink(WriteTmpPatch(t)), rej |-> rj]
    ELSE [Strategies(text, WriteTmpPatch(t), rj, killed) EXCEPT !.wt = Unlink(@)]

\* ------------------------------------------------------------------------
\* Sandbox executor (orchestrator.sandbox_test_plan)
\* ------------------------------------------------------------------------
Main == <<"main">>
Detached == <<"detached">>
NoRepo == <<"none">>
SandboxBranch(p) == <<"agent-sandbox", p>>

\* exit codes of run_tests_in_dir: pass, fail, timeout (-1), launch error (-2)
TestRcs == {0, 1, -1, -2}

\* a commit: the tracked files and the tracked reject fragments it holds
Commit(t, rj, msg) == [wt |-> t, rej |-> rj, msg |-> msg]

\* the repository at REPO_ROOT and the ephemeral copies next to it
World ==
    [head |-> head, branches |-> branches, wt |-> wt, rej |-> rej, log |-> log,
     tmpd |-> tmpd]

\* the commit HEAD points at.  Every commit is made on the checked-out line
\* of history, so it is the newest one.
HeadCommit(w) == w.log[Len(w.log)]

\* repo.is_dirty() without untracked_files: only tracked files count
Dirty_TrackedOnly(w) ==
    \E f \in TreeFiles : HeadCommit(w).wt[f] # "absent" /\ w.wt[f] # HeadCommit(w).wt[f]

\* repo.is_dirty(untracked_files=True)
Dirty(w) == w.wt # HeadCommit(w).wt \/ w.rej # HeadCommit(w).rej

Result(applied, error, apply, tests) ==
    [applied |-> applied, error |-> error, apply |-> apply, tests |-> tests]

\* what a sandbox call leaves: its result, the world, and what it ran
Ran(result, w, created, applier, applyOk, tests) ==
    [result |-> result, world |-> w, created |-> created, applier |-> applier,
     applyOk |-> applyOk, tests |-> tests]

\* lines 96-98 and 106-108: git checkout <orig>; git branch -D <sandbox>
Restore(w, orig, sb) == [w EXCEPT !.head = orig, !.branches = @ \ {sb}]

\* a sandbox that starts the test command before it looks at the applier's ok
AfterApply_TestsAnyway(ap, back, rc) ==
    IF ~ap.ok
    THEN Ran(Result(FALSE, "git apply failed", Some(ap.attempts), None),
             back, TRUE, TRUE, ap.ok, TRUE)
    ELSE Ran(Result(TRUE, "", None, Some(rc)), back, TRUE, TRUE, ap.ok, TRUE)

\* lines 93-111 and 145-149: after the applier returned ap; back is the world
\* the call leaves
AfterApply(ap, back, rc) ==
    IF ~ap.ok
    THEN Ran(Result(FALSE, "git apply failed", Some(ap.attempts), None),
             back, TRUE, TRUE, ap.ok, FALSE)
    ELSE Ran(Result(TRUE, "", None, Some(rc)), back, TRUE, TRUE, ap.ok, TRUE)

\* a sandbox that commits the patched tree on the sandbox branch
BranchMode_Commits(p, text, w, rc, exc) ==
    LET sb == SandboxBranch(p)
        orig == w.head
    IN  IF Dirty(w)
        THEN Ran(Result(FALSE, "Repo dirty", None, None), w, FALSE, FALSE, FALSE, FALSE)
        ELSE IF sb \in w.branches /\ w.head = sb
        THEN \* git branch -D of the checked-out branch fails: line 112
             Ran(Result(FALSE, "exception", None, None), w, FALSE, FALSE, FALSE, FALSE)
        ELSE
        LET on == [w EXCEPT !.head = sb, !.branches = @ \cup {sb}]
            ap == ApplyPatchText(text, w.wt, w.rej, exc, {})
            after == [on EXCEPT !.wt = ap.wt, !.rej = ap.rej,
                               !.log = Append(@, Commit(ap.wt, ap.rej, "sandbox"))]
        IN  IF ap.raised
            THEN Ran(Result(FALSE, "exception", None, None),
                     after, TRUE, TRUE, FALSE, FALSE)
            ELSE AfterApply(ap, Restore(after, orig, sb), rc)

\* lines 77-113
BranchMode(p, text, w, rc, exc) ==
    LET sb == SandboxBranch(p)
        orig == w.head
    IN  IF Dirty(w)
        THEN Ran(Result(FALSE, "Repo dirty", None, None), w, FALSE, FALSE, FALSE, FALSE)
        ELSE IF sb \in w.branches /\ w.head = sb
        THEN \* git branch -D of the checked-out branch fails: line 112
             Ran(Result(FALSE, "exception", None, None), w, FALSE, FALSE, FALSE, FALSE)
        ELSE
        LET on == [w EXCEPT !.head = sb, !.branches = @ \cup {sb}]
            ap == ApplyPatchText(text, w.wt, w.rej, exc, {})
            after == [on EXCEPT !.wt = ap.wt, !.rej = ap.rej]
        IN  IF ap.raised
            THEN Ran(Result(FALSE, "exception", None, None),
                     after, TRUE, TRUE, FALSE, FALSE)
            ELSE AfterApply(ap, Restore(after, orig, sb), rc)

\* line 116: tempfile.mkdtemp(prefix="agent-sbx-<plan_id>-")
MkDtemp(w, p) == [w EXCEPT !.tmpd = @ \cup {p}]

\* lines 152-156: finally: shutil.rmtree(tmpd)
RmTree(w, p) == [w EXCEPT !.tmpd = @ \ {p}]

\* a copy mode that removes the copy only when the try body completed
CopyMode_NoFinally(p, text, w, rc, exc) ==
    LET made == MkDtemp(w, p)
        ap == ApplyPatchText(text, w.wt, w.rej, exc, {})
    IN  IF ap.raised
        THEN Ran(Result(FALSE, "exception", None, None), made, FALSE, TRUE, FALSE, FALSE)
        ELSE [AfterApply(ap, RmTree(made, p), rc) EXCEPT !.created = FALSE]

\* lines 114-156: the patch is applied to a copy that is removed afterwards;
\* exc: the copy, git init, or the applier raises inside the try body
CopyMode(p, text, w, rc, exc) ==
    LET made == MkDtemp(w, p)
        ap == ApplyPatchText(text, w.wt, w.rej, exc, {})
    IN  IF ap.raised
        THEN Ran(Result(FALSE, "exception", None, None),
                 RmTree(made, p), FALSE, TRUE, FALSE, FALSE)
        ELSE [AfterApply(ap, RmTree(made, p), rc) EXCEPT !.created = FALSE]

SandboxTestPlanOn(st, git, w, p, rc, exc) ==
    IF p \notin DOMAIN st
    THEN Ran(Result(FALSE, "Plan not found", None, None), w, FALSE, FALSE, FALSE, FALSE)
    ELSE IF st[p].patch = None
    THEN Ran(Result(FALSE, "Plan has no patch", None, None), w, FALSE, FALSE, FALSE, FALSE)
    ELSE IF git THEN BranchMode(p, st[p].patch[1], w, rc, exc)
    ELSE CopyMode(p, st[p].patch[1], w, rc, exc)

SandboxTestPlan(p, rc, exc) ==
    LET r == SandboxTestPlanOn(store, isGit, World, p, rc, exc)
    IN  /\ head' = r.world.head
        /\ branches' = r.world.branches
        /\ wt' = r.world.wt
        /\ rej' = r.world.rej
        /\ last' = [op |-> "sandbox", pid |-> p, pre |-> World, preStore |-> store,
                    result |-> r.result,
                    created |-> r.created, applier |-> r.applier,
                    applyOk |-> r.applyOk, tests |-> r.tests]
        /\ log' = r.world.log
        /\ tmpd' = r.world.tmpd
        /\ UNCHANGED <<store, isGit>>

\* ------------------------------------------------------------------------
\* Verifier (verifier.py) and the verify loop (dev_workflow.verify_plan)
\* ------------------------------------------------------------------------
\* the names settings.py defines
SettingsNames ==
    {"DATA_DIR", "CHROMA_DIR", "MEMORY_DIR", "EMBEDDING_MODEL", "RERANK_MODEL",
     "USE_RERANK", "CHUNK_SIZE", "CHUNK_OVERLAP", "TOP_K", "MAX_TOKENS_CONTEXT",
     "LLM_MODEL", "AGENT_MAX_STEPS", "REPO_ROOT", "RESPECT_GITIGNORE",
     "INCLUDE_GLOBS", "EXCLUDE_GLOBS", "GIT_COMMIT_AUTHOR", "GIT_COMMIT_MESSAGE",
     "TEST_CMD"}

\* the names verifier.py imports from settings
VerifierSettings == {"STATIC_ANALYSIS_CMDS"}

\* the parameters of orchestrator.sandbox_test_plan
SandboxParams == {"plan_id", "timeout_seconds"}

\* the keyword arguments Verifier.run passes to sandbox_test_plan
VerifierKwargs == {"timeout_seconds", "extra_commands"}

\* line 139: 'from verifier import Verifier' executes verifier.py
ImportVerifier ==
    IF VerifierSettings \subseteq SettingsNames THEN "" ELSE "ImportError"

\* Verifier.run: the sandbox result wrapped into a verification result
VerifierRun(st, git, w, p, rc, exc) ==
    IF ~(VerifierKwargs \subseteq SandboxParams)
    THEN [raised |-> "TypeError", status |-> "", summary |-> "", details |-> None,
          world |-> w]
    ELSE LET r == SandboxTestPlanOn(st, git, w, p, rc, exc)
             passed == r.result.tests # None /\ r.result.tests[1] = 0
         IN  [raised |-> "",
              status |-> IF passed THEN "passed" ELSE "failed",
              summary |-> IF r.result.tests # None THEN "tests rc" ELSE "",
              details |-> Some(r.result), world |-> r.world]

Outcome(raised, st, w, status, runs, gens, recorded) ==
    [raised |-> raised, store |-> st, world |-> w, status |-> status,
     runs |-> runs, gens |-> gens, recorded |-> recorded]

RECURSIVE VerifyRounds(_, _, _, _, _, _, _, _, _, _, _)

\* lines 186-193: implement_plan with the feedback, then the next round
SelfCorrect(st2, git, w2, p, autoFix, N, k, env, status, runs, gens, im) ==
    IF im.raised # ""
    THEN Outcome("", SavePlanIn(st2, p, im.rec), w2, status, runs, gens + 1, k)
    ELSE VerifyRounds(SavePlanIn(st2, p, im.rec), git, w2, p, autoFix, N, k, env,
                      status, runs, gens + 1)

\* lines 163-185: stop on a pass, without auto-fix, at the budget or without feedback
Decide(st2, git, p, autoFix, N, k, env, runs, gens, v) ==
    IF v.status = "passed" \/ ~autoFix \/ k >= N \/ v.summary = ""
    THEN Outcome("", st2, v.world, v.status, runs, gens, k)
    ELSE SelfCorrect(st2, git, v.world, p, autoFix, N, k, env, v.status, runs, gens,
                     ImplementOn(st2[p], env[k].raw, Some("auto")))

\* lines 155-161: the round's result is appended and the record saved
Record(st, git, w, p, autoFix, N, k, env, status, runs, gens, v) ==
    IF v.raised # ""
    THEN Outcome(v.raised, st, w, status, runs, gens, k - 1)
    ELSE Decide(SavePlanIn(st, p,
                    [st[p] EXCEPT
                        !.ver_attempts =
                            Append(@, [round |-> Len(st[p].ver_attempts) + 1,
                                       status |-> v.status, summary |-> v.summary,
                                       details |-> v.details]),
                        !.ver_status = v.status]),
                git, p, autoFix, N, k, env, runs + 1, gens, v)

\* lines 153-154; env[k] holds what the sandbox and the generator do in round k
VerifyRounds(st, git, w, p, autoFix, N, rounds, env, status, runs, gens) ==
    IF rounds >= N THEN Outcome("", st, w, status, runs, gens, rounds)
    ELSE Record(st, git, w, p, autoFix, N, rounds + 1, env, status, runs, gens,
                VerifierRun(st, git, w, p, env[rounds + 1].rc, env[rounds + 1].exc))

\* a verify_plan whose import works and that lacks the check of lines 143-144
VerifyPlanOn_NoPatchCheck(st, git, w, p, autoFix, N, env) ==
    IF p \notin DOMAIN st THEN Outcome("FileNotFoundError", st, w, "", 0, 0, 0)
    ELSE VerifyRounds(st, git, w, p, autoFix, N, 0, env, st[p].ver_status, 0, 0)

\* verify_plan, lines 138-195
VerifyPlanOn(st, git, w, p, autoFix, N, env) ==
    IF ImportVerifier # "" THEN Outcome(ImportVerifier, st, w, "", 0, 0, 0)
    ELSE IF p \notin DOMAIN st THEN Outcome("FileNotFoundError", st, w, "", 0, 0, 0)
    ELSE IF st[p].final_patch = None THEN Outcome("RuntimeError", st, w, "", 0, 0, 0)
    ELSE VerifyRounds(st, git, w, p, autoFix, N, 0, env, st[p].ver_status, 0, 0)

\* what surrounds the rounds of one verify_plan call: in round k the test
\* command exits with env[k].rc and the generator answers env[k].raw.  The
\* calls are explored with tests that pass or fail in every round and with a
\* generator that answers prose or a valid diff.
RoundEnvs ==
    {[k \in 1..MaxRounds |-> [rc |-> rc, exc |-> FALSE, raw |-> raw]] :
        rc \in {0, 1}, raw \in {GenProse, Diff(<<BlkNew>>)}}

Finish(p, autoFix, N, env, o) ==
    /\ store' = o.store
    /\ head' = o.world.head
    /\ branches' = o.world.branches
    /\ wt' = o.world.wt
    /\ rej' = o.world.rej
    /\ log' = o.world.log
    /\ tmpd' = o.world.tmpd
    /\ last' = [op |-> "verify", pid |-> p, autoFix |-> autoFix, N |-> N,
                env |-> env, pre |-> World, preStore |-> store,
                hadPatch |-> (Exists(p) /\ store[p].final_patch # None),
                raised |-> o.raised, status |-> o.status,
                returned |-> IF o.raised = "" THEN Some(o.store[p].ver_attempts) ELSE None,
                runs |-> o.runs, gens |-> o.gens, recorded |-> o.recorded]
    /\ UNCHANGED isGit

VerifyPlan(p, autoFix, N, env) ==
    Finish(p, autoFix, N, env, VerifyPlanOn(store, isGit, World, p, autoFix, N, env))

\* ------------------------------------------------------------------------
\* Apply operations and revert (dev_workflow.py, lines 202-444)
\* ------------------------------------------------------------------------
MaxCommits == 3

\* lines 223-224 and 230-231: only a leading 'b/' is cut
StripB(t) ==
    IF Len(t) >= 2 /\ t[1] = "b" /\ t[2] = "/" THEN SubSeq(t, 3, Len(t)) ELSE t

\* the text of a block from its '@@' line on: what the lines it removes and
\* adds need to find and what they leave
HunkOf(blk) ==
    [pre |-> IF blk.added THEN "empty" ELSE blk.pre,
     post |-> IF blk.deleted THEN "empty" ELSE blk.post]

\* parse_patch_hunks: one entry per block, its file and its hunks
ParsePatchHunks(text) ==
    [i \in 1..Len(text.blocks) |->
        [file |-> StripB(TargetFile(text.blocks[i])),
         hunks |-> <<HunkOf(text.blocks[i])>>]]

\* line 423: the header names the file as a plain modification
HunkBlock(path, h) ==
    [path |-> path, added |-> FALSE, deleted |-> FALSE, pre |-> h.pre, post |-> h.post]

InRange(b, chosen) == SelectSeq(chosen, LAMBDA i : 0 <= i /\ i < Len(b.hunks))

RECURSIVE HunkBlocks(_, _)
\* lines 418-426: a block per file with a selected hunk that exists
HunkBlocks(parsed, sel) ==
    IF parsed = <<>> THEN <<>>
    ELSE LET b == Head(parsed)
             picked == InRange(b, IF b.file \in DOMAIN sel THEN sel[b.file] ELSE <<>>)
         IN  (IF picked = <<>> THEN <<>>
              ELSE <<HunkBlock(b.file, b.hunks[picked[1] + 1])>>)
             \o HunkBlocks(Tail(parsed), sel)

\* record.get('implementation', {}).get('final_patch') or record.get('patch')
StoredPatch(rec) == IF rec.final_patch # None THEN rec.final_patch ELSE rec.patch

\* exit codes of run_tests: pass, fail, timeout (124)
RunTestsRcs == {0, 1, 124}

\* what surrounds one apply call: the scratch file cannot be written (exc),
\* git commands that are killed, and the exit code of the test command
Env(exc, killed, rc) == [exc |-> exc, killed |-> killed, rc |-> rc]

ApplyEnvs ==
    {Env(FALSE, {}, rc) : rc \in RunTestsRcs}
        \cup {Env(FALSE, k, 0) : k \in {{1}, {1, 2}, {1, 2, 3}}}
        \cup {Env(TRUE, {}, 0)}

Summary(ap) == [ok |-> ap.ok, attempts |-> ap.attempts]

\* what an apply or revert call leaves
Done(raised, w, ap, committed, tests) ==
    [raised |-> raised, world |-> w, ap |-> ap, committed |-> committed,
     tests |-> tests]

\* commit_changes: git add --all, then a commit of whatever the tree holds
CommitChanges(w, msg) == [w EXCEPT !.log = Append(@, Commit(w.wt, w.rej, msg))]

\* apply_patch_text(patch); commit_changes(); run_tests()
Land(git, w, text, msg, env) ==
    LET ap == ApplyPatchText(text, w.wt, w.rej, env.exc, env.killed)
        after == [w EXCEPT !.wt = ap.wt, !.rej = ap.rej]
    IN  IF ap.raised THEN Done("OSError", after, None, FALSE, None)
        ELSE IF ~git
        THEN Done("InvalidGitRepositoryError", after, Some(Summary(ap)), FALSE, None)
        ELSE Done("", CommitChanges(after, msg), Some(Summary(ap)), TRUE, Some(env.rc))

\* apply_plan, lines 368-376
ApplyPlanOn(st, git, w, p, env) ==
    IF p \notin DOMAIN st THEN Done("FileNotFoundError", w, None, FALSE, None)
    ELSE IF StoredPatch(st[p]) = None THEN Done("RuntimeError", w, None, FALSE, None)
    ELSE Land(git, w, StoredPatch(st[p])[1], "", env)

\* apply_plan_hunks, lines 411-433
ApplyPlanHunksOn(st, git, w, p, sel, env) ==
    IF p \notin DOMAIN st THEN Done("FileNotFoundError", w, None, FALSE, None)
    ELSE IF StoredPatch(st[p]) = None THEN Done("RuntimeError", w, None, FALSE, None)
    ELSE IF HunkBlocks(ParsePatchHunks(StoredPatch(st[p])[1]), sel) = <<>>
    THEN Done("RuntimeError", w, None, FALSE, None)
    ELSE Land(git, w, Diff(HunkBlocks(ParsePatchHunks(StoredPatch(st[p])[1]), sel)),
              "(hunks)", env)

\* the attributes of unidiff's Hunk (a list of Line with these fields)
HunkAttributes ==
    {"source_start", "source_length", "target_start", "target_length",
     "section_header", "added", "removed", "source", "target"}

\* line 387: the blocks whose normalised target is in the requested files
Matched(text, files) ==
    SelectSeq(text.blocks, LAMBDA blk : NormTarget(TargetFile(blk)) \in Range(files))

\* lines 390-401: header for the normalised target, and the hunk lines by
\* their value, which is the line without its '+', '-' or ' ' marker
FileBlocks(text, files) ==
    [i \in 1..Len(Matched(text, files)) |->
        [Matched(text, files)[i] EXCEPT
            !.path = NormTarget(TargetFile(Matched(text, files)[i])),
            !.added = FALSE, !.deleted = FALSE]]

\* apply_plan_files, lines 379-408; line 393 reads h.header
ApplyPlanFilesOn(st, git, w, p, files, env) ==
    IF p \notin DOMAIN st THEN Done("FileNotFoundError", w, None, FALSE, None)
    ELSE IF StoredPatch(st[p]) = None THEN Done("RuntimeError", w, None, FALSE, None)
    ELSE IF Matched(StoredPatch(st[p])[1], files) = <<>>
    THEN Done("RuntimeError", w, None, FALSE, None)
    ELSE IF "header" \notin HunkAttributes
    THEN Done("AttributeError", w, None, FALSE, None)
    ELSE Land(git, w,
              Text(FALSE, TRUE, FALSE, TRUE, FileBlocks(StoredPatch(st[p])[1], files)),
              "(partial)", env)

\* the tree of the parent of commit i (the empty tree for the first commit)
ParentOf(lg, i) ==
    IF i = 1 THEN Commit([f \in TreeFiles |-> "absent"], {}, "")
    ELSE lg[i - 1]

\* git revert --no-commit: the change of commit i undone in a clean tree; a
\* path changed since in another way is left unmerged
Reverted(w, i) ==
    LET c == w.log[i]
        pa == ParentOf(w.log, i)
    IN  [wt |-> [f \in TreeFiles |->
                    IF c.wt[f] = pa.wt[f] \/ w.wt[f] = pa.wt[f] THEN w.wt[f]
                    ELSE IF w.wt[f] = c.wt[f] THEN pa.wt[f]
                    ELSE "unmerged"],
         rej |-> (w.rej \ (c.rej \ pa.rej)) \cup (pa.rej \ c.rej),
         conflict |-> \E f \in TreeFiles :
                         c.wt[f] # pa.wt[f] /\ w.wt[f] # pa.wt[f] /\ w.wt[f] # c.wt[f]]

\* a revert that does not look at the state of the tree
RevertCommitOn_NoDirtyCheck(git, w, i) ==
    IF ~git THEN Done("InvalidGitRepositoryError", w, None, FALSE, None)
    ELSE IF i \notin 1..Len(w.log) THEN Done("GitCommandError", w, None, FALSE, None)
    ELSE CASE Reverted(w, i).conflict ->
                Done("GitCommandError",
                     [w EXCEPT !.wt = Reverted(w, i).wt, !.rej = Reverted(w, i).rej],
                     None, FALSE, None)
           [] OTHER ->
                Done("", CommitChanges([w EXCEPT !.wt = Reverted(w, i).wt,
                                                 !.rej = Reverted(w, i).rej], "revert"),
                     None, TRUE, None)

\* revert_commit, lines 436-444; i = 0 stands for a sha the repository lacks
RevertCommitOn(git, w, i) ==
    IF ~git THEN Done("InvalidGitRepositoryError", w, None, FALSE, None)
    ELSE IF Dirty(w) THEN Done("RuntimeError", w, None, FALSE, None)
    ELSE IF i \notin 1..Len(w.log) THEN Done("GitCommandError", w, None, FALSE, None)
    ELSE CASE Reverted(w, i).conflict ->
                Done("GitCommandError",
                     [w EXCEPT !.wt = Reverted(w, i).wt, !.rej = Reverted(w, i).rej],
                     None, FALSE, None)
           [] OTHER ->
                Done("", CommitChanges([w EXCEPT !.wt = Reverted(w, i).wt,
                                                 !.rej = Reverted(w, i).rej], "revert"),
                     None, TRUE, None)

\* the state after an apply or revert call that left d
Leave(d, what) ==
    /\ head' = d.world.head
    /\ branches' = d.world.branches
    /\ wt' = d.world.wt
    /\ rej' = d.world.rej
    /\ log' = d.world.log
    /\ tmpd' = d.world.tmpd
    /\ last' = [op |-> what.op, pid |-> what.pid, arg |-> what.arg, env |-> what.env,
                pre |-> World, raised |-> d.raised, ap |-> d.ap,
                committed |-> d.committed, tests |-> d.tests]
    /\ UNCHANGED <<store, isGit>>

Call(op, p, arg, env) == [op |-> op, pid |-> p, arg |-> arg, env |-> env]

ApplyPlan(p, env) ==
    /\ Len(log) < MaxCommits
    /\ Leave(ApplyPlanOn(store, isGit, World, p, env), Call("apply_plan", p, <<>>, env))

ApplyPlanFiles(p, files, env) ==
    /\ Len(log) < MaxCommits
    /\ Leave(ApplyPlanFilesOn(store, isGit, World, p, files, env),
             Call("apply_plan_files", p, files, env))

ApplyPlanHunks(p, sel, env) ==
    /\ Len(log) < MaxCommits
    /\ Leave(ApplyPlanHunksOn(store, isGit, World, p, sel, env),
             Call("apply_plan_hunks", p, sel, env))

RevertCommit(i) ==
    /\ Len(log) < MaxCommits
    /\ Leave(RevertCommitOn(isGit, World, i), Call("revert_commit", "", i, <<>>))

\* ------------------------------------------------------------------------
\* The user's own changes to the working tree
\* ------------------------------------------------------------------------
UserContents == {"u1"}

\* an uncommitted edit or a new untracked file
UserEdit(f, c) ==
    /\ wt[f] # c
    /\ wt' = [wt EXCEPT ![f] = c]
    /\ last' = [op |-> "user"]
    /\ UNCHANGED <<store, isGit, head, branches, rej, log, tmpd>>

\* the user discards the uncommitted changes (git stash -u / reset and clean)
UserClean ==
    /\ isGit
    /\ Dirty(World)
    /\ wt' = HeadCommit(World).wt
    /\ rej' = HeadCommit(World).rej
    /\ last' = [op |-> "user"]
    /\ UNCHANGED <<store, isGit, head, branches, log, tmpd>>

\* ------------------------------------------------------------------------
\* Specifications
\* ------------------------------------------------------------------------
CleanRepo ==
    /\ isGit \in BOOLEAN
    /\ head \in (IF isGit THEN {Main, Detached} ELSE {NoRepo})
    /\ branches = (IF isGit THEN {Main} ELSE {})
    /\ wt = BaseTree
    /\ rej = {}
    /\ log = (IF isGit THEN <<Commit(BaseTree, {}, "base")>> ELSE <<>>)
    /\ tmpd = {}
    /\ last = [op |-> "start"]

\* the state after start-up: no plan stored.  No action of the workflow
\* reaches the working tree (see ImportVerifier), so one repository is enough.
Init ==
    /\ store = <<>>
    /\ CleanRepo
    /\ isGit /\ head = Main

\* the workflow is explored with one environment of the verify rounds (see
\* SpecVerify for the others)
WorkflowEnvs == {[k \in 1..MaxRounds |-> [rc |-> 1, exc |-> FALSE, raw |-> GenProse]]}

WorkflowNext ==
    \/ \E req \in Requests, files \in DeclaredLists, ok \in BOOLEAN :
          MakePlan(req, files, ok)
    \/ \E p \in PlanIds, raw \in GenOutputs, fb \in Feedbacks : ImplementPlan(p, raw, fb)
    \/ \E p \in PlanIds \cup {UnknownId} : ImplementMissing(p)
    \/ \E p \in PlanIds \cup {UnknownId}, autoFix \in BOOLEAN, N \in 0..MaxRounds :
          \E env \in WorkflowEnvs : VerifyPlan(p, autoFix, N, env)

Next == WorkflowNext

Spec == Init /\ [][Next]_vars

\* the stores make_plan and at most one implement_plan leave behind
Implemented ==
    {SavePlanIn(<<>>, p, ImplementOn(NewRecord(p, req, <<>>), raw, None).rec) :
        p \in PlanIds, req \in Requests,
        raw \in {t \in GenOutputs : ValidatePatch(t, <<>>).ok}}

Planned == {SavePlanIn(<<>>, p, NewRecord(p, req, <<>>)) : p \in PlanIds, req \in Requests}

InitSandbox ==
    /\ store \in Implemented \cup Planned
    /\ CleanRepo

SandboxNext ==
    \/ \E p \in PlanIds \cup {UnknownId}, rc \in TestRcs, exc \in BOOLEAN :
          SandboxTestPlan(p, rc, exc)
    \/ \E f \in {PX, PNew}, c \in UserContents : UserEdit(f, c)
    \/ UserClean

SpecSandbox == InitSandbox /\ [][SandboxNext]_vars

\* the patches of the stored plans the apply operations are explored on: a
\* modification with a new file, and a deletion
ApplyPatches == {Diff(<<BlkModX, BlkNew>>), Diff(<<BlkDelX>>)}

Applicable ==
    {SavePlanIn(<<>>, p, ImplementOn(NewRecord(p, req, <<>>), raw, None).rec) :
        p \in PlanIds, req \in Requests, raw \in ApplyPatches}

\* the files of an apply_plan_files request
FileLists == {<<PX>>, <<PNew>>, <<PX, PNew>>}

\* every hunk of every file of a patch: index 0 of each parsed entry
SelectAll(text) ==
    [f \in {ParsePatchHunks(text)[i].file : i \in 1..Len(text.blocks)} |-> <<0>>]

\* the selections of an apply_plan_hunks request
Selections ==
    {SelectAll(t) : t \in ApplyPatches}
        \cup {[f \in {PX} |-> <<1, 0>>], [f \in {PNew} |-> <<1>>]}

InitApply ==
    /\ store \in Applicable \cup Planned
    /\ CleanRepo
    /\ isGit /\ head = Main

\* a call for an unknown plan id is explored in one environment
EnvsFor(p) == IF p = UnknownId THEN {Env(FALSE, {}, 0)} ELSE ApplyEnvs

ApplyNext ==
    \/ \E p \in PlanIds \cup {UnknownId} : \E env \in EnvsFor(p) : ApplyPlan(p, env)
    \/ \E p \in PlanIds \cup {UnknownId}, files \in FileLists :
          \E env \in EnvsFor(p) : ApplyPlanFiles(p, files, env)
    \/ \E p \in PlanIds \cup {UnknownId}, sel \in Selections :
          \E env \in EnvsFor(p) : ApplyPlanHunks(p, sel, env)
    \/ \E i \in 0..MaxCommits : RevertCommit(i)
    \/ \E f \in {PX, PNew}, c \in UserContents : UserEdit(f, c)

SpecApply == InitApply /\ [][ApplyNext]_vars

\* verify_plan on the stores one make_plan and one implement_plan leave, on
\* every kind of repository, with a user who edits the tree in between
InitVerify ==
    /\ store \in Implemented \cup Planned
    /\ CleanRepo

VerifyNext ==
    \/ \E p \in PlanIds \cup {UnknownId}, autoFix \in BOOLEAN, N \in 0..MaxRounds :
          \E env \in RoundEnvs : VerifyPlan(p, autoFix, N, env)
    \/ \E f \in {PX, PNew}, c \in UserContents : UserEdit(f, c)
    \/ UserClean

SpecVerify == InitVerify /\ [][VerifyNext]_vars

\* a text with a format oddity: git calls it corrupt, unidiff parses it
Oddity(blocks) == Text(FALSE, TRUE, TRUE, TRUE, blocks)

\* the texts apply_patch_text is explored on as a function of its own: a
\* patch that fits, one with a block that does not fit, one whose target is
\* missing, one unidiff cannot parse, and one only unidiff can read
ApplierTexts ==
    {Diff(<<BlkModX>>), Diff(<<BlkNew, BlkBadX>>), Diff(<<BlkLibX>>), GenUnparseable,
     Oddity(<<BlkLibX>>)}

\* one call apply_patch_text(text, REPO_ROOT)
ApplyText(text, env) ==
    LET ap == ApplyPatchText(text, wt, rej, env.exc, env.killed)
    IN  /\ wt' = ap.wt
        /\ rej' = ap.rej
        /\ last' = [op |-> "apply_patch_text", text |-> text, env |-> env,
                    pre |-> World, raised |-> ap.raised,
                    ap |-> IF ap.raised THEN None ELSE Some(Summary(ap))]
        /\ UNCHANGED <<store, isGit, head, branches, log, tmpd>>

InitApplier ==
    /\ store = <<>>
    /\ CleanRepo
    /\ isGit /\ head = Main

ApplierNext ==
    \/ \E text \in ApplierTexts, env \in ApplyEnvs : ApplyText(text, env)
    \/ \E f \in {PX, PNew}, c \in UserContents : UserEdit(f, c)
    \/ UserClean

SpecApplier == InitApplier /\ [][ApplierNext]_vars

\* ------------------------------------------------------------------------
\* parse_patch_hunks and the partial patch of apply_plan_hunks, line by line
\* (dev_workflow.py, lines 202-245 and 415-428).  A line is described by what
\* the code looks at: how it starts, the path it carries, and its position
\* in the text (id), which tells two lines of the same kind apart.
\* ------------------------------------------------------------------------
MaxLines == 4

Unknown == <<"u", "n", "k", "n", "o", "w", "n">>

BX == <<"b", "/", "x">>

\* the kinds of line a text is made of: 'diff --git a/x b/x', 'diff --git'
\* with fewer than four tokens, '+++ b/x', '+++ ' with nothing after it,
\* an '@@' line, and any other line
LineKinds ==
    {[k |-> "diff", p |-> Some(BX)], [k |-> "diff", p |-> None],
     [k |-> "+++", p |-> Some(BX)], [k |-> "+++", p |-> Some(<<>>)],
     [k |-> "@@", p |-> None], [k |-> "body", p |-> None]}

\* str.splitlines(): the lines of a text, numbered by position
Numbered(kinds) ==
    [i \in 1..Len(kinds) |-> [k |-> kinds[i].k, p |-> kinds[i].p, id |-> i]]

RECURSIVE KindSeqs(_)
KindSeqs(n) ==
    IF n = 0 THEN {<<>>}
    ELSE KindSeqs(n - 1) \cup
         {Append(q, c) : q \in {r \in KindSeqs(n - 1) : Len(r) = n - 1}, c \in LineKinds}

PatchLines == {Numbered(q) : q \in KindSeqs(MaxLines)}

RECURSIVE BlocksFrom(_, _, _)
\* lines 204-216: a block starts at every 'diff --git' line; the lines
\* before the first one belong to no block
BlocksFrom(lines, current, blocks) ==
    IF lines = <<>>
    THEN IF current # <<>> THEN Append(blocks, current) ELSE blocks
    ELSE IF Head(lines).k = "diff"
    THEN BlocksFrom(Tail(lines), <<Head(lines)>>,
                    IF current # <<>> THEN Append(blocks, current) ELSE blocks)
    ELSE BlocksFrom(Tail(lines),
                    IF current # <<>> THEN Append(current, Head(lines)) ELSE current,
                    blocks)

\* lines 220-232: the path of the first '+++ ' line, else the fourth token of
\* the 'diff --git' line, each without a leading 'b/'; else 'unknown'
TargetOf(block) ==
    LET plus == SelectSeq(block, LAMBDA ln : ln.k = "+++")
        t1 == IF plus # <<>> THEN StripB(plus[1].p[1]) ELSE <<>>
        t2 == IF block[1].p # None THEN StripB(block[1].p[1]) ELSE <<>>
    IN  IF t1 # <<>> THEN t1 ELSE IF t2 # <<>> THEN t2 ELSE Unknown

RECURSIVE HunksFrom_DropsLast(_, _, _)
\* a split that forgets the hunk still open at the end of the block
HunksFrom_DropsLast(lines, hunk, hunks) ==
    IF lines = <<>> THEN hunks
    ELSE IF Head(lines).k = "@@"
    THEN HunksFrom_DropsLast(Tail(lines), <<Head(lines)>>,
                             IF hunk # <<>> THEN Append(hunks, hunk) ELSE hunks)
    ELSE HunksFrom_DropsLast(Tail(lines),
                             IF hunk # <<>> THEN Append(hunk, Head(lines)) ELSE hunk,
                             hunks)

RECURSIVE HunksFrom(_, _, _)
\* lines 233-243: a hunk starts at every '@@' line; the lines of the block
\* before the first one belong to no hunk
HunksFrom(lines, hunk, hunks) ==
    IF lines = <<>>
    THEN IF hunk # <<>> THEN Append(hunks, hunk) ELSE hunks
    ELSE IF Head(lines).k = "@@"
    THEN HunksFrom(Tail(lines), <<Head(lines)>>,
                   IF hunk # <<>> THEN Append(hunks, hunk) ELSE hunks)
    ELSE HunksFrom(Tail(lines),
                   IF hunk # <<>> THEN Append(hunk, Head(lines)) ELSE hunk,
                   hunks)

\* parse_patch_hunks on the lines of a text
ParseLines(lines) ==
    LET blocks == BlocksFrom(lines, <<>>, <<>>)
    IN  [i \in 1..Len(blocks) |->
            [file |-> TargetOf(blocks[i]), hunks |-> HunksFrom(blocks[i], <<>>, <<>>)]]

\* line 423: 'diff --git a/<path> b/<path>', '--- a/<path>', '+++ b/<path>'
Header(path) ==
    <<<<"diff --git", <<"a", "/">> \o path, <<"b", "/">> \o path>>,
      <<"---", <<"a", "/">> \o path>>, <<"+++", <<"b", "/">> \o path>>>>

\* line 424: the hunks at the chosen indices that exist, in the order chosen
Picked(hunks, chosen) ==
    LET idx == SelectSeq(chosen, LAMBDA i : 0 <= i /\ i < Len(hunks))
    IN  [i \in 1..Len(idx) |-> hunks[idx[i] + 1]]

RECURSIVE OutBlocks(_, _)
\* lines 416-426
OutBlocks(parsed, selections) ==
    IF parsed = <<>> THEN <<>>
    ELSE LET b == Head(parsed)
             chosen == IF b.file \in DOMAIN selections THEN selections[b.file] ELSE <<>>
         IN  (IF chosen = <<>> \/ Picked(b.hunks, chosen) = <<>> THEN <<>>
              ELSE <<[file |-> b.file, header |-> Header(b.file),
                      hunks |-> Picked(b.hunks, chosen)]>>)
             \o OutBlocks(Tail(parsed), selections)

\* the hunk index lists of an apply_plan_hunks request for file 'x'
ChosenLists == {<<>>, <<0>>, <<1>>, <<0, 1>>, <<1, 0>>, <<2>>, <<-1, 0>>}

\* a stored text, before one of the two operations is applied to it
InitHunks ==
    /\ store = <<>>
    /\ isGit = TRUE /\ head = Main /\ branches = {Main}
    /\ wt = BaseTree /\ rej = {} /\ tmpd = {}
    /\ log = <<Commit(BaseTree, {}, "base")>>
    /\ \E lines \in PatchLines : last = [op |-> "text", lines |-> lines]

\* one call parse_patch_hunks(text)
ParseHunks ==
    /\ last.op = "text"
    /\ last' = [op |-> "parse_patch_hunks", lines |-> last.lines,
                parsed |-> ParseLines(last.lines)]
    /\ UNCHANGED <<store, isGit, head, branches, wt, rej, log, tmpd>>

\* lines 415-428 of apply_plan_hunks on a stored text: the partial patch, or
\* RuntimeError('No hunks selected')
PartialPatch(chosen) ==
    /\ last.op = "text"
    /\ last' = [op |-> "partial_patch", lines |-> last.lines, chosen |-> chosen,
                raised |-> IF OutBlocks(ParseLines(last.lines), [f \in {PX} |-> chosen]) = <<>>
                           THEN "RuntimeError" ELSE "",
                out |-> OutBlocks(ParseLines(last.lines), [f \in {PX} |-> chosen])]
    /\ UNCHANGED <<store, isGit, head, branches, wt, rej, log, tmpd>>

HunksNext ==
    \/ ParseHunks
    \/ \E chosen \in ChosenLists : PartialPatch(chosen)

SpecHunks == InitHunks /\ [][HunksNext]_vars

\* ------------------------------------------------------------------------
\* _write_tmp_patch, character by character (dev_workflow.py, lines 263-267)
\* ------------------------------------------------------------------------
MaxChars == 4

\* a space, a character that is not whitespace, carriage return, line feed
Chars == {"SP", "x", "CR", "LF"}

RECURSIVE CharSeqs(_)
CharSeqs(n) ==
    IF n = 0 THEN {<<>>}
    ELSE CharSeqs(n - 1) \cup
         {Append(q, c) : q \in {r \in CharSeqs(n - 1) : Len(r) = n - 1}, c \in Chars}

RECURSIVE ReplaceCRLF(_)
\* str.replace("\r\n", "\n")
ReplaceCRLF(t) ==
    IF t = <<>> THEN <<>>
    ELSE IF Len(t) >= 2 /\ t[1] = "CR" /\ t[2] = "LF"
    THEN <<"LF">> \o ReplaceCRLF(SubSeq(t, 3, Len(t)))
    ELSE <<t[1]>> \o ReplaceCRLF(Tail(t))

\* str.replace("\r", "\n")
ReplaceCR(t) == [i \in 1..Len(t) |-> IF t[i] = "CR" THEN "LF" ELSE t[i]]

RECURSIVE SplitLF(_, _)
\* str.split("\n"): the pieces between line feeds, the last one included
SplitLF(t, piece) ==
    IF t = <<>> THEN <<piece>>
    ELSE IF Head(t) = "LF" THEN <<piece>> \o SplitLF(Tail(t), <<>>)
    ELSE SplitLF(Tail(t), Append(piece, Head(t)))

RECURSIVE RStrip(_)
\* str.rstrip(): whitespace is cut from the right end until another
\* character is met
RStrip(ln) ==
    IF ln = <<>> THEN <<>>
    ELSE IF ln[Len(ln)] \in {"SP", "CR", "LF"} THEN RStrip(SubSeq(ln, 1, Len(ln) - 1))
    ELSE ln

\* lines 264-265: the lines written to the scratch file
NormalizedLines(t) ==
    [i \in 1..Len(SplitLF(ReplaceCR(ReplaceCRLF(t)), <<>>)) |->
        RStrip(SplitLF(ReplaceCR(ReplaceCRLF(t)), <<>>)[i])]

\* a patch text, before it is written to the scratch file
InitNormalize ==
    /\ store = <<>>
    /\ isGit = TRUE /\ head = Main /\ branches = {Main}
    /\ wt = BaseTree /\ rej = {} /\ tmpd = {}
    /\ log = <<Commit(BaseTree, {}, "base")>>
    /\ \E t \in CharSeqs(MaxChars) : last = [op |-> "text", text |-> t]

\* _write_tmp_patch(text, tmp): the scratch file holds the normalised lines
WriteTmp ==
    /\ last.op = "text"
    /\ last' = [op |-> "write_tmp_patch", text |-> last.text,
                written |-> NormalizedLines(last.text)]
    /\ wt' = WriteTmpPatch(wt)
    /\ UNCHANGED <<store, isGit, head, branches, rej, log, tmpd>>

SpecNormalize == InitNormalize /\ [][WriteTmp]_vars

\* ------------------------------------------------------------------------
\* Properties
\* ------------------------------------------------------------------------
Stored == DOMAIN store

\* the path a block really touches
RealPath(blk) == blk.path

RealPaths(text) == {RealPath(text.blocks[i]) : i \in 1..Len(text.blocks)}

StructurallyValid(text) ==
    ~text.blank /\ text.marker /\ text.parses /\ Len(text.blocks) > 0

VerifyCalled == last.op = "verify" /\ last.hadPatch

SandboxCalled == last.op = "sandbox"

\* the applier raised inside the sandbox call
ApplierRaised == last.applier /\ last.result.error = "exception"

\* the sandbox call was made for a stored plan with a patch
Sandboxable == last.pid \in Stored /\ store[last.pid].patch # None

\* the tree differed from the commit it was checked out from before the call
PreDirty ==
    \/ last.pre.wt # HeadCommit(last.pre).wt
    \/ last.pre.rej # HeadCommit(last.pre).rej

\* C1: a verify_plan call with auto_fix and max_rounds = N on a plan with a
\* patch runs the sandbox at most N times and returns an attempts list of
\* length at most N.
C1_Orig ==
    (VerifyCalled /\ last.autoFix) =>
        /\ last.runs <= last.N
        /\ last.returned # None
        /\ Len(last.returned[1]) <= last.N

\* C2: after a sandbox_test_plan call whose applier returned, the current
\* branch or commit and the contents of the working tree (reject fragments
\* included) equal the snapshot taken just before the call.
C2_Orig ==
    (SandboxCalled /\ ~ApplierRaised) =>
        /\ head = last.pre.head
        /\ wt = last.pre.wt
        /\ rej = last.pre.rej

\* C3: in branch mode, once the tree is clean and the applier has not
\* raised, sandbox_test_plan returns on the origin branch (or commit) and no
\* branch agent-sandbox-<plan_id> exists, also when one was left over.
C3_Orig ==
    (SandboxCalled /\ isGit /\ Sandboxable /\ ~PreDirty /\ ~ApplierRaised) =>
        /\ head = last.pre.head
        /\ SandboxBranch(last.pid) \notin branches

\* C4: sandbox_test_plan for a stored plan with a patch, on a repository
\* whose tree has an uncommitted or untracked change, returns applied=false
\* with the dirty-tree error, creates no sandbox branch, invokes neither the
\* applier nor the tests, and leaves branch and tree as they were.
C4_DirtyFailsFast ==
    (SandboxCalled /\ isGit /\ Sandboxable /\ PreDirty) =>
        /\ ~last.result.applied
        /\ last.result.error = "Repo dirty"
        /\ ~last.created /\ ~last.applier /\ ~last.tests
        /\ head = last.pre.head /\ branches = last.pre.branches
        /\ wt = last.pre.wt /\ rej = last.pre.rej

C4_Witness ==
    /\ SandboxCalled /\ isGit /\ Sandboxable /\ PreDirty
    /\ last.result.error = "Repo dirty"
    /\ wt[PNew] = "u1"

\* C5: in both modes, when the applier returns ok=false the sandbox result
\* has applied=false, carries the applier's attempts and no test result, and
\* the test command was not started; tests start only after ok=true.
C5_NoTestsAfterFailedApply ==
    SandboxCalled =>
        /\ (last.applier /\ ~ApplierRaised /\ ~last.applyOk) =>
              /\ ~last.result.applied
              /\ last.result.apply # None
              /\ last.result.tests = None
              /\ ~last.tests
        /\ last.tests => (last.applyOk /\ last.result.applied)

C5_Witness ==
    /\ SandboxCalled /\ last.applier /\ ~ApplierRaised /\ ~last.applyOk
    /\ ~last.result.applied /\ last.result.apply # None /\ ~last.tests

\* C6: for a stored plan with a patch, every round of verify_plan gets a
\* result with status passed or failed from Verifier.run; verify_plan never
\* ends with an exception propagated out of the round.
C6_Orig ==
    (VerifyCalled /\ last.N >= 1) =>
        /\ last.raised = ""
        /\ last.status \in {"passed", "failed"}

\* C7: for a plan that declares at least one file, no patch stored in
\* implementation.attempts or as final_patch touches a file outside the
\* declared list.
C7_Orig ==
    \A p \in Stored :
        store[p].files # <<>> =>
            /\ \A i \in 1..Len(store[p].attempts) :
                  store[p].attempts[i].kind = "attempt" =>
                      RealPaths(store[p].attempts[i].patch) \subseteq Range(store[p].files)
            /\ store[p].final_patch # None =>
                  RealPaths(store[p].final_patch[1]) \subseteq Range(store[p].files)

\* C8 as stated: every entry of implementation.attempts is a structurally
\* valid patch; output that fails validation adds no entry.
C8_Orig ==
    \A p \in Stored :
        \A i \in 1..Len(store[p].attempts) :
            /\ store[p].attempts[i].kind = "attempt"
            /\ StructurallyValid(store[p].attempts[i].patch)

\* C8 as amended: every entry of implementation.attempts that holds a patch
\* holds a structurally valid one; output that fails validation adds one
\* error entry without a patch and never becomes the final patch, which stays
\* the patch of the latest entry that holds one.
C8_Amended ==
    \A p \in Stored :
        LET att == store[p].attempts
            good == {i \in 1..Len(att) : att[i].kind = "attempt"}
        IN  /\ \A i \in 1..Len(att) : att[i].kind \in {"attempt", "error"}
            /\ \A i \in good : StructurallyValid(att[i].patch)
            /\ good = {} => store[p].final_patch = None
            /\ good # {} =>
                  store[p].final_patch =
                      Some(att[CHOOSE i \in good : \A j \in good : j <= i].patch)
            /\ (last.op = "implement" /\ last.pid = p /\ last.raw # None
                  /\ ~StructurallyValid(last.raw[1])) =>
                  /\ last.raised = "PatchValidationError"
                  /\ att[Len(att)].kind = "error"

C8_Witness ==
    \E p \in Stored :
        /\ Len(store[p].attempts) = 2
        /\ store[p].attempts[1].kind = "attempt"
        /\ store[p].attempts[2].kind = "error"
        /\ store[p].final_patch = Some(store[p].attempts[1].patch)
        /\ last.op = "implement" /\ last.raised = "PatchValidationError"

\* C9: for a plan that declares at least one file, implement_plan raises
\* PatchValidationError whenever the generator output is blank, lacks the
\* 'diff --git' marker, does not parse, holds no file block or touches a file
\* outside the declared list, after a single generator call.
C9_Orig ==
    (last.op = "implement" /\ last.pid \in Stored /\ last.raw # None
        /\ store[last.pid].files # <<>>) =>
        /\ last.genCalls = 1
        /\ (~StructurallyValid(last.raw[1])
              \/ ~(RealPaths(last.raw[1]) \subseteq Range(store[last.pid].files)))
           => last.raised = "PatchValidationError"

\* C10: a verify_plan call with max_rounds = 1 on a plan with a patch records
\* exactly one round, returns status passed or failed and, when the round
\* failed, has not called the generator; a call that ran k rounds made at
\* most k-1 generator calls.
C10_Orig ==
    VerifyCalled =>
        /\ last.N = 1 =>
              /\ last.recorded = 1
              /\ last.status \in {"passed", "failed"}
              /\ last.gens = 0
        /\ last.recorded >= 1 => last.gens <= last.recorded - 1

C13_Orig ==
    VerifyCalled =>
        /\ last.raised = ""
        /\ last.runs >= 1
        /\ last.recorded >= 1
        /\ last.status = last.returned[1][Len(last.returned[1])].status

\* the apply operation reached the applier and the applier returned
ApplierReturned ==
    last.op \in {"apply_plan", "apply_plan_files", "apply_plan_hunks"} /\ last.ap # None

\* C14: apply_patch_text returns ok=true only when the last command it ran is
\* one of the first three strategies and exited with 0; whenever the
\* reject-mode command was run the result is ok=false, also when that command
\* exited with 0.
C14_OkOnlyFirstThree ==
    ApplierReturned =>
        LET a == last.ap[1]
            n == Len(a.attempts)
        IN  /\ a.ok => (n \in 1..3 /\ a.attempts[n].returncode = 0
                        /\ a.attempts[n].strategy # "reject")
            /\ (\E i \in 1..n : a.attempts[i].strategy = "reject") => ~a.ok

C14_Witness ==
    /\ ApplierReturned
    /\ Len(last.ap[1].attempts) = 4
    /\ last.ap[1].attempts[4] = Tried("reject", 0)
    /\ ~last.ap[1].ok

\* C15: sandbox_test_plan creates no commit and does not write the plan
\* record: the commits of the repository and the stored records are the same
\* after the call as before.
C15_NoCommitNoWrite ==
    SandboxCalled =>
        /\ log = last.pre.log
        /\ store = last.preStore

C15_Witness ==
    /\ SandboxCalled /\ isGit
    /\ last.result.applied /\ last.tests
    /\ log = last.pre.log

\* C16: revert_commit on a dirty tree (a modified or an untracked file)
\* raises without running the revert: no commit is created and the tree is
\* as it was.
C16_DirtyRevertRefused ==
    (last.op = "revert_commit" /\ isGit /\ PreDirty) =>
        /\ last.raised = "RuntimeError"
        /\ ~last.committed
        /\ log = last.pre.log
        /\ wt = last.pre.wt /\ rej = last.pre.rej

C16_Witness ==
    /\ last.op = "revert_commit" /\ isGit /\ PreDirty
    /\ last.arg \in 1..Len(log)
    /\ wt[PNew] = "u1"
    /\ last.raised = "RuntimeError"

\* C17: with auto_fix and a budget of at least two rounds, verify_plan on a
\* plan with a patch does not end with an exception, and a first round that
\* ended with a test failure (1) or a timeout (-1) is followed by a
\* generator call.
C17_Orig ==
    (VerifyCalled /\ last.autoFix /\ last.N >= 2) =>
        /\ last.raised = ""
        /\ last.recorded >= 1
        /\ LET att == last.returned[1]
               first == att[Len(att) - last.recorded + 1]
           IN  (first.details[1].tests # None /\ first.details[1].tests[1] \in {1, -1})
                  => (first.status = "failed" /\ last.gens >= 1)

\* C18: when the stored diff D applies to the baseline, apply_plan_hunks with
\* every hunk of every file selected applies too and leaves the tree that
\* applying D leaves, also for a diff that adds or deletes a file.
C18_Orig ==
    (/\ last.op = "apply_plan_hunks"
     /\ last.pid \in Stored
     /\ StoredPatch(store[last.pid]) # None
     /\ last.arg = SelectAll(StoredPatch(store[last.pid])[1])
     /\ ~last.env.exc /\ last.env.killed = {}
     /\ Strategies(StoredPatch(store[last.pid])[1], last.pre.wt, last.pre.rej, {}).ok)
    =>
        /\ last.ap # None
        /\ last.ap[1].ok
        /\ wt = Strategies(StoredPatch(store[last.pid])[1],
                           last.pre.wt, last.pre.rej, {}).wt
        /\ rej = Strategies(StoredPatch(store[last.pid])[1],
                            last.pre.wt, last.pre.rej, {}).rej

\* the tree apply_plan_files leaves for files <<a>> and then for files <<b>>
OneByOne(p, a, b, w, env) ==
    ApplyPlanFilesOn(store, isGit,
                     ApplyPlanFilesOn(store, isGit, w, p, <<a>>, env).world,
                     p, <<b>>, env).world

\* C19: for a stored patch with two blocks on different files A and B,
\* apply_plan_files with [A, B] returns and leaves the tree that
\* apply_plan_files with [A] followed by apply_plan_files with [B] leaves.
C19_Orig ==
    (/\ last.op = "apply_plan_files"
     /\ last.pid \in Stored
     /\ StoredPatch(store[last.pid]) # None
     /\ Len(StoredPatch(store[last.pid])[1].blocks) = 2
     /\ last.arg = <<StoredPatch(store[last.pid])[1].blocks[1].path,
                     StoredPatch(store[last.pid])[1].blocks[2].path>>
     /\ last.arg[1] # last.arg[2])
    =>
        /\ last.raised = ""
        /\ wt = OneByOne(last.pid, last.arg[1], last.arg[2], last.pre, last.env).wt
        /\ rej = OneByOne(last.pid, last.arg[1], last.arg[2], last.pre, last.env).rej

\* C20: implementing or verifying with a plan id that has no record fails
\* with the not-found error and creates no record; a record, once created,
\* stays, with its plan_id and request unchanged.
C20_Orig ==
    /\ [](((last.op \in {"implement", "verify"}) /\ last.pid \notin Stored)
            => last.raised = "FileNotFoundError")
    /\ [][\A p \in DOMAIN store :
            /\ p \in DOMAIN store'
            /\ store'[p].plan_id = p
            /\ store'[p].request = store[p].request]_vars

\* C21: when an exception is raised in branch mode after the sandbox branch
\* was checked out (the applier or a git command raises), sandbox_test_plan
\* returns with the repository back on the origin branch and the sandbox
\* branch deleted, as on the normal exits.
C21_Orig ==
    (SandboxCalled /\ isGit /\ last.created /\ last.result.error = "exception") =>
        /\ head = last.pre.head
        /\ SandboxBranch(last.pid) \notin branches

\* a sandbox round of the verify loop on a git repository that started from
\* a clean tree and ended with a failed apply or a failed test command
FailedRound ==
    /\ SandboxCalled /\ isGit /\ Sandboxable /\ ~PreDirty
    /\ last.applier /\ ~ApplierRaised
    /\ \/ ~last.result.applied
       \/ last.result.tests # None /\ last.result.tests[1] # 0

\* C22: the tree left by a sandbox round that failed (apply or tests) is
\* clean and equal to the baseline the round started from, so that the next
\* round of verify_plan is not rejected as dirty and applies its patch to
\* the original baseline.
C22_Orig ==
    FailedRound =>
        /\ ~Dirty(World)
        /\ wt = last.pre.wt /\ rej = last.pre.rej

\* C23: in copy mode the caller's tree is not modified and the ephemeral
\* copy directory does not exist when sandbox_test_plan returns, whether the
\* apply succeeded, failed, or an exception was raised in the try body.
C23_CopyModeLeavesNothing ==
    (SandboxCalled /\ ~isGit /\ Sandboxable) =>
        /\ wt = last.pre.wt /\ rej = last.pre.rej
        /\ head = last.pre.head /\ branches = last.pre.branches
        /\ tmpd = {}

C23_Witness ==
    /\ SandboxCalled /\ ~isGit /\ Sandboxable
    /\ ApplierRaised
    /\ tmpd = {} /\ wt = last.pre.wt

\* an operation that called apply_patch_text on the repository tree
ApplierCalled ==
    \/ last.op \in {"apply_plan", "apply_plan_files", "apply_plan_hunks"}
          /\ (last.ap # None \/ last.raised = "OSError")
    \/ last.op = "sandbox" /\ last.applier

\* C24: the scratch patch file does not exist in the working directory when
\* apply_patch_text has returned or raised, whichever strategy ended the
\* chain.
C24_ScratchFileRemoved ==
    ApplierCalled => wt[PTmp] = "absent"

C24_Witness ==
    /\ last.op = "apply_plan" /\ last.raised = "OSError" /\ last.env.exc
    /\ wt[PTmp] = "absent"

\* the scratch file is gone as well after a chain that ended in reject mode
C24_WitnessReject ==
    /\ ApplierReturned /\ Len(last.ap[1].attempts) = 4
    /\ wt[PTmp] = "absent"

\* the strategies of apply_patch_text in the order the claim gives
StrategyOrder == <<"apply", "precreate", "reserialize", "reject">>

FirstRound ==
    SandboxTestPlanOn(last.preStore, isGit, last.pre, last.pid,
                      last.env[1].rc, last.env[1].exc).result

\* C26: when the first round fails and the generator answers the feedback
\* with output that does not pass validation, verify_plan ends at once: one
\* sandbox round, one generator call, the final patch still the one that
\* was tested, and the failed round's status returned, not an exception.
C26_Orig ==
    (/\ VerifyCalled /\ last.autoFix /\ last.N >= 2
     /\ FirstRound.tests # None /\ FirstRound.tests[1] # 0
     /\ ~ValidatePatch(last.env[1].raw, last.preStore[last.pid].files).ok) =>
        /\ last.raised = ""
        /\ last.runs = 1 /\ last.gens = 1
        /\ store[last.pid].final_patch = last.preStore[last.pid].final_patch
        /\ last.status = "failed"

C28_Orig ==
    (/\ VerifyCalled /\ last.N >= 1
     /\ FirstRound.tests # None /\ FirstRound.tests[1] = 0) =>
        /\ last.raised = ""
        /\ last.status = "passed"
        /\ last.runs = 1 /\ last.gens = 0
        /\ last.returned[1][Len(last.returned[1])].status = "passed"

\* C29: with auto_fix false a verify_plan call with max_rounds >= 1 runs
\* exactly one round and calls no generator; a call that used up max_rounds
\* rounds has called the generator fewer than max_rounds times.
C29_Orig ==
    (VerifyCalled /\ last.N >= 1) =>
        /\ ~last.autoFix => (last.runs = 1 /\ last.gens = 0)
        /\ last.runs = last.N => last.gens < last.N
        /\ last.runs <= last.N

\* C30: with auto_fix and a budget of at least two rounds, when the first
\* round yields no feedback (the sandbox could not apply the patch or found
\* the tree dirty, so no test ran), verify_plan returns the failed status
\* after that one round without calling the generator.
C30_Orig ==
    (/\ VerifyCalled /\ last.autoFix /\ last.N >= 2
     /\ FirstRound.tests = None) =>
        /\ last.raised = ""
        /\ last.status = "failed"
        /\ last.runs = 1 /\ last.gens = 0

\* the members of a set of hunk indices, smallest first
Ascending(S) ==
    CHOOSE q \in [1..Cardinality(S) -> S] :
        \A i, j \in 1..Cardinality(S) : i < j => q[i] < q[j]

\* the hunks of a block that a list of indices selects, in the order they
\* have in the patch
InOriginalOrder(hunks, chosen) ==
    LET S == {i \in Range(chosen) : 0 <= i /\ i < Len(hunks)}
    IN  [i \in 1..Cardinality(S) |-> hunks[Ascending(S)[i] + 1]]

RECURSIVE SelectedBlocks(_, _)
\* a block, header first, for every file with a selected hunk that exists
SelectedBlocks(parsed, chosen) ==
    IF parsed = <<>> THEN <<>>
    ELSE (IF Head(parsed).file # PX \/ InOriginalOrder(Head(parsed).hunks, chosen) = <<>>
          THEN <<>>
          ELSE <<[file |-> PX, header |-> Header(PX),
                  hunks |-> InOriginalOrder(Head(parsed).hunks, chosen)]>>)
         \o SelectedBlocks(Tail(parsed), chosen)

\* C31: the partial patch of apply_plan_hunks holds, for each file with a
\* selected hunk that exists, the three-line header and the selected hunks in
\* the order they have in the stored patch, whatever the order of the
\* indices; other files contribute nothing, and the call fails when no block
\* remains.
C31_Orig ==
    last.op = "partial_patch" =>
        /\ last.out = SelectedBlocks(ParseLines(last.lines), last.chosen)
        /\ (last.raised = "RuntimeError") <=> (last.out = <<>>)

\* the positions of the 'diff --git' lines of a text
DiffLines(lines) == {i \in 1..Len(lines) : lines[i].k = "diff"}

\* the lines of the block that starts at line i
BlockAt(lines, i) ==
    SubSeq(lines, i,
           IF \E j \in DiffLines(lines) : j > i
           THEN (CHOOSE j \in DiffLines(lines) :
                    j > i /\ \A m \in DiffLines(lines) : m > i => j <= m) - 1
           ELSE Len(lines))

\* the lines of a block from its first '@@' line to its end
FromFirstHunk(block) ==
    IF \E i \in 1..Len(block) : block[i].k = "@@"
    THEN SubSeq(block,
                CHOOSE i \in 1..Len(block) :
                    block[i].k = "@@" /\ \A j \in 1..(i - 1) : block[j].k # "@@",
                Len(block))
    ELSE <<>>

RECURSIVE Flat(_)
Flat(hunks) == IF hunks = <<>> THEN <<>> ELSE Head(hunks) \o Flat(Tail(hunks))

\* the '+++' path of a block, as written
PlusPath(block) ==
    LET plus == SelectSeq(block, LAMBDA ln : ln.k = "+++")
    IN  IF plus # <<>> THEN plus[1].p[1] ELSE <<>>

\* the structure both readings of C32 share: one entry per 'diff --git'
\* line, in order, whose hunks start at '@@' lines and together are the
\* block's lines from the first '@@' line on
C32_Structure(lines, parsed) ==
    /\ Len(parsed) = Cardinality(DiffLines(lines))
    /\ \A n \in 1..Len(parsed) :
          LET blk == BlockAt(lines, Ascending(DiffLines(lines))[n])
          IN  /\ Flat(parsed[n].hunks) = FromFirstHunk(blk)
              /\ \A h \in 1..Len(parsed[n].hunks) :
                    /\ parsed[n].hunks[h] # <<>>
                    /\ parsed[n].hunks[h][1].k = "@@"
                    /\ \A m \in 2..Len(parsed[n].hunks[h]) : parsed[n].hunks[h][m].k # "@@"

\* C32 as stated: the file is the '+++' path without its 'b/' prefix, else
\* the fourth token of the 'diff --git' line as it stands, else 'unknown'
C32_Orig ==
    last.op = "parse_patch_hunks" =>
        /\ C32_Structure(last.lines, last.parsed)
        /\ \A n \in 1..Len(last.parsed) :
              LET blk == BlockAt(last.lines, Ascending(DiffLines(last.lines))[n])
              IN  last.parsed[n].file =
                    IF StripB(PlusPath(blk)) # <<>> THEN StripB(PlusPath(blk))
                    ELSE IF blk[1].p # None THEN blk[1].p[1]
                    ELSE Unknown

\* C32, amended: the fourth token of the 'diff --git' line loses its 'b/'
\* prefix as well, and an empty result falls through to 'unknown'
C32_Amended ==
    last.op = "parse_patch_hunks" =>
        /\ C32_Structure(last.lines, last.parsed)
        /\ \A n \in 1..Len(last.parsed) :
              LET blk == BlockAt(last.lines, Ascending(DiffLines(last.lines))[n])
              IN  last.parsed[n].file =
                    IF StripB(PlusPath(blk)) # <<>> THEN StripB(PlusPath(blk))
                    ELSE IF blk[1].p # None /\ StripB(blk[1].p[1]) # <<>>
                    THEN StripB(blk[1].p[1])
                    ELSE Unknown

\* a text of two blocks: the first has no '+++' line and two hunks, the
\* second no recoverable path
C32_Witness ==
    /\ last.op = "parse_patch_hunks"
    /\ Len(last.parsed) = 2
    /\ last.parsed[1].file = PX /\ Len(last.parsed[1].hunks) = 2
    /\ last.parsed[2].file = Unknown

\* the lines of a text, where CRLF, CR and LF each end a line
InputLines(t) == SplitLF(ReplaceCR(ReplaceCRLF(t)), <<>>)

\* the whitespace a line starts with
RECURSIVE Leading(_)
Leading(ln) ==
    IF ln = <<>> \/ ln[1] # "SP" THEN <<>> ELSE <<"SP">> \o Leading(Tail(ln))

\* C33: the normalisation before the first apply turns CRLF and CR into LF
\* and removes only trailing whitespace: every line is written without line
\* ending characters, as a prefix of the input line that lacks only
\* whitespace, and with the leading whitespace of the input line unchanged,
\* also for a line that consists only of its leading space.
C33_Orig ==
    last.op = "write_tmp_patch" =>
        /\ Len(last.written) = Len(InputLines(last.text))
        /\ \A i \in 1..Len(last.written) :
              LET out == last.written[i]
                  inp == InputLines(last.text)[i]
              IN  /\ \A j \in 1..Len(out) : out[j] \notin {"CR", "LF"}
                  /\ Len(out) <= Len(inp) /\ out = SubSeq(inp, 1, Len(out))
                  /\ \A j \in (Len(out) + 1)..Len(inp) : inp[j] = "SP"
                  /\ Leading(out) = Leading(inp)

\* the files the last apply_patch_text call brought into being although the
\* patch does not flag them as newly added: the work of the pre-creation step
PreCreated ==
    {f \in TreeFiles \ {PTmp} :
        /\ last.pre.wt[f] = "absent" /\ wt[f] # "absent"
        /\ \E i \in 1..Len(last.text.blocks) :
              last.text.blocks[i].path = f /\ ~last.text.blocks[i].added}

\* C34: after a failed first apply the pre-creation step runs only when the
\* diagnostic of git names missing targets (git then exits with 1), creates
\* the missing targets that are not flagged as new, and none that is; a
\* patch that adds lines to a file that does not exist then applies with
\* ok=true through this step and the file holds the added lines.
C34_Orig ==
    (last.op = "apply_patch_text" /\ last.ap # None) =>
        /\ PreCreated # {} => last.ap[1].attempts[1].returncode = 1
        /\ \A i \in 1..Len(last.text.blocks) :
              (last.text.blocks[i].added /\ last.pre.wt[last.text.blocks[i].path] = "absent")
                 => wt[last.text.blocks[i].path] \in {"absent", last.text.blocks[i].post}
        /\ (last.text = Diff(<<BlkLibX>>) /\ last.pre.wt[PLibX] = "absent"
            /\ last.env.killed = {}) =>
              /\ last.ap[1].ok
              /\ Len(last.ap[1].attempts) = 2
              /\ wt[PLibX] = BlkLibX.post

\* C35: apply_plan, apply_plan_files and apply_plan_hunks create a commit
\* and return applied=true only when the applier returned ok=true; after
\* ok=false there is no new commit and no result that claims the patch was
\* applied.
C35_Orig ==
    (ApplierReturned /\ isGit) =>
        /\ last.committed => last.ap[1].ok
        /\ ~last.ap[1].ok => (log = last.pre.log /\ last.raised # "")

\* C36: in every persisted record the 'patch' field the sandbox reads equals
\* implementation.final_patch, and both are the patch of the most recent
\* implementation attempt that passed validation; both are absent while no
\* attempt has passed.
LatestValidated(att) ==
    LET good == {i \in 1..Len(att) : att[i].kind = "attempt"}
    IN  IF good = {} THEN None
        ELSE Some(att[CHOOSE i \in good : \A j \in good : j <= i].patch)

C36_OnePatch ==
    \A p \in Stored :
        /\ store[p].patch = store[p].final_patch
        /\ store[p].final_patch = LatestValidated(store[p].attempts)

C36_Witness ==
    \E p \in Stored :
        /\ Len(store[p].attempts) >= 2
        /\ store[p].attempts[1].kind = "attempt"
        /\ store[p].attempts[Len(store[p].attempts)].kind = "attempt"
        /\ store[p].attempts[Len(store[p].attempts)].patch # store[p].attempts[1].patch
        /\ store[p].patch = Some(store[p].attempts[Len(store[p].attempts)].patch)
        /\ last.op = "implement" /\ last.pid = p /\ last.raised = ""

\* C38: implementation.attempts and verification.attempts of a persisted
\* record only grow by appending: across every step each stored record is
\* still stored and each entry it held is unchanged at the same position.
IsPrefix(s, t) ==
    /\ Len(s) <= Len(t)
    /\ \A i \in 1..Len(s) : t[i] = s[i]

C38_AppendOnly ==
    [][\A p \in DOMAIN store :
          /\ p \in DOMAIN store'
          /\ IsPrefix(store[p].attempts, store'[p].attempts)
          /\ IsPrefix(store[p].ver_attempts, store'[p].ver_attempts)]_vars

C38_Witness ==
    \E p \in Stored :
        /\ Len(store[p].attempts) >= 2
        /\ store[p].attempts[1].kind = "error"
        /\ store[p].attempts[2].kind = "attempt"
        /\ last.op = "verify" /\ last.pid = p

\* C40: implement_plan accepts, and stores as the new final patch, every
\* non-blank parseable diff with at least one file block whose target paths
\* are all in the plan's declared list, whatever characters the paths hold
\* (lib/x holds 'b/' after its first character).
C40_Orig ==
    (/\ last.op = "implement" /\ last.raw # None
     /\ ~last.raw[1].blank /\ last.raw[1].marker /\ last.raw[1].parses
     /\ Len(last.raw[1].blocks) > 0
     /\ \A i \in 1..Len(last.raw[1].blocks) : ~last.raw[1].blocks[i].deleted
     /\ RealPaths(last.raw[1]) \subseteq Range(store[last.pid].files)) =>
        /\ last.raised = ""
        /\ store[last.pid].final_patch = last.raw

====
